---- MODULE Spec2Model ----
(***************************************************************************)
(* Model of the kty containers of KittyInterpreter:                        *)
(*   kty::Allocator<T>  (src/kty/containers/allocator.hpp)                 *)
(*   kty::Deque<T>      (src/kty/containers/deque.hpp)                     *)
(*                                                                         *)
(* Pointers into an allocator's arena are modelled by the index of the     *)
(* block they address: pool_[i] = pool + i is the pointer i.  NULL and the *)
(* pointers that address no block of the arena are integers outside        *)
(* 0..poolSize_-1.                                                         *)
(***************************************************************************)
EXTENDS Integers, Sequences, FiniteSets, TLC

\* ---------------------------------------------------------------- bounds
\* Largest poolSize_ an Allocator is constructed with in SpecAlloc.
MaxPool == 3
\* Largest maxSize a Deque's allocator is created for in SpecDeque.
MaxDequeSize == 3
\* The values pushed are 1 .. MaxVal.
MaxVal == 2
\* Largest itemSize an Allocator is constructed with in SpecAlloc, in bytes.
MaxItemSize == 3
\* Largest sizeof(T) of an Allocator<T> in SpecAlloc, in bytes.
MaxTypeSize == 2
\* Largest number of slots of a StringPool.
MaxStrings == 4
\* Number of pointers besides NULL that address no block of the arena.
NumForeign == 1
\* numTaken_ is an int that deallocate can drive below zero; the model stops
\* deallocating once it has reached -MaxUnderflow.
MaxUnderflow == 2

\* ------------------------------------------------------------- variables
VARIABLES
    alloc,        \* the Allocator object: poolSize_, taken_, numTaken_, maxNumTaken_
    op,           \* name of the last operation called
    arg,          \* pointer argument of the last operation (NULL when none)
    ret,          \* pointer returned by the last operation (NULL when none)
    outstanding,  \* history: pointers returned by allocate and not deallocated since
    freed,        \* history: pointers deallocated and not returned by allocate since
    mem,          \* the arena's blocks as Deque::Node records, and the node at address NULL
    head,         \* Deque::head
    size_,        \* Deque::size_
    life,         \* the Deque object: "none" (not constructed), "live", "destroyed"
    fault,        \* "none", or how a write through NULL ended: "crashed", "wild"
    absSeq,       \* history: the sequence of values the calls so far should leave
    phase,        \* history: shape of the calls since construction (see Phase)
    atCtor,       \* history: the allocator as it was when the constructor was entered
    trip,         \* history: a push onto the empty Deque and the pop that follows it
    layout,       \* the Allocator's itemSize_ and sizeof(T), in bytes
    pool,         \* the StringPool: its slots' in-use flags and bytes
    sdq,          \* the StringDeques: for each, the sequence of handles it holds
    held,         \* handles allocate_idx returned to the caller, not pushed or freed yet
    sret,         \* result of the last StringPool / StringDeque call: idx, ok
    streak,       \* history: results of the allocate_idx calls, while nothing else was called
    avail0,       \* history: available() before the caller allocated any handle
    ps,           \* the PoolString: the handle of the slot it owns
    targ,         \* text argument of the last PoolString call
    dqs,          \* the Deques that share one Allocator: head, size_ and life of each
    actor         \* the Deque of dqs the last member function was called on

allocClientVars == <<arg, ret, outstanding, freed>>
dequeVars == <<mem, head, size_, life, fault, absSeq, phase, atCtor, trip>>
vars == <<alloc, op, arg, ret, outstanding, freed,
          mem, head, size_, life, fault, absSeq, phase, atCtor, trip, layout,
          pool, sdq, held, sret, streak, avail0, ps, targ, dqs, actor>>
sharedVars == <<dqs, actor>>
stringVars == <<pool, sdq, held, sret, streak, avail0, ps, targ>>

\* ------------------------------------------------------------- Allocator
\* The null pointer: what allocate returns when no block is free.
NULL == -1

\* Allocator(poolSize): every block free, both counters zero.
AllocatorInit(poolSize) ==
    [poolSize_    |-> poolSize,
     taken_       |-> [i \in 0 .. poolSize - 1 |-> FALSE],
     numTaken_    |-> 0,
     maxNumTaken_ |-> 0]

\* pool_[i] = pool + i
pool_(i) == i

\* The pointers pool_[0] .. pool_[poolSize_-1] of allocator a.
PoolPtrs(a) == {pool_(i) : i \in 0 .. a.poolSize_ - 1}

\* The loop of allocate from index i on: the first index whose block is free,
\* or poolSize_ when the loop runs off the end.
RECURSIVE FirstFree(_, _)
FirstFree(a, i) ==
    IF i >= a.poolSize_ THEN a.poolSize_
    ELSE IF ~a.taken_[i] THEN i
    ELSE FirstFree(a, i + 1)

\* A faulty allocate: it counts the call even when no block is free.
allocate_CountsFailure(a) ==
    LET i == FirstFree(a, 0) IN
    IF i < a.poolSize_
    THEN [a   |-> [a EXCEPT !.taken_[i] = TRUE,
                            !.numTaken_ = a.numTaken_ + 1,
                            !.maxNumTaken_ = IF a.numTaken_ + 1 > a.maxNumTaken_
                                             THEN a.numTaken_ + 1
                                             ELSE a.maxNumTaken_],
          ret |-> pool_(i)]
    ELSE [a   |-> [a EXCEPT !.numTaken_ = a.numTaken_ + 1],
          ret |-> NULL]

\* A faulty allocate: when no block is free it hands out block 0 again.
allocate_Evicts(a) ==
    LET i == FirstFree(a, 0) IN
    IF i < a.poolSize_
    THEN [a   |-> [a EXCEPT !.taken_[i] = TRUE,
                            !.numTaken_ = a.numTaken_ + 1,
                            !.maxNumTaken_ = IF a.numTaken_ + 1 > a.maxNumTaken_
                                             THEN a.numTaken_ + 1
                                             ELSE a.maxNumTaken_],
          ret |-> pool_(i)]
    ELSE [a |-> a, ret |-> pool_(0)]

\* The scan of a faulty allocate, downwards from index i: the last index whose
\* block is free, or poolSize_ when there is none.
RECURSIVE LastFree(_, _)
LastFree(a, i) ==
    IF i < 0 THEN a.poolSize_
    ELSE IF ~a.taken_[i] THEN i
    ELSE LastFree(a, i - 1)

\* A faulty allocate: it scans from the last block down.
allocate_FromTheEnd(a) ==
    LET i == LastFree(a, a.poolSize_ - 1) IN
    IF i < a.poolSize_
    THEN [a   |-> [a EXCEPT !.taken_[i] = TRUE,
                            !.numTaken_ = a.numTaken_ + 1,
                            !.maxNumTaken_ = IF a.numTaken_ + 1 > a.maxNumTaken_
                                             THEN a.numTaken_ + 1
                                             ELSE a.maxNumTaken_],
          ret |-> pool_(i)]
    ELSE [a |-> a, ret |-> NULL]

\* A faulty allocate: the first free block is returned and not marked as taken.
allocate_NoMark(a) ==
    LET i == FirstFree(a, 0) IN
    IF i < a.poolSize_
    THEN [a |-> a, ret |-> pool_(i)]
    ELSE [a |-> a, ret |-> NULL]

\* T* allocate(): the allocator after the call (a) and the pointer returned (ret).
allocate(a) ==
    LET i == FirstFree(a, 0) IN
    IF i < a.poolSize_
    THEN [a   |-> [a EXCEPT !.taken_[i] = TRUE,
                            !.numTaken_ = a.numTaken_ + 1,
                            !.maxNumTaken_ = IF a.numTaken_ + 1 > a.maxNumTaken_
                                             THEN a.numTaken_ + 1
                                             ELSE a.maxNumTaken_],
          ret |-> pool_(i)]
    ELSE [a |-> a, ret |-> NULL]

\* The loop of deallocate from index i on: the first index whose pool_ entry
\* equals ptr, or poolSize_ when the loop runs off the end.
RECURSIVE FindBlock(_, _, _)
FindBlock(a, ptr, i) ==
    IF i >= a.poolSize_ THEN a.poolSize_
    ELSE IF pool_(i) = ptr THEN i
    ELSE FindBlock(a, ptr, i + 1)

\* A faulty deallocate: a pointer that matches no block frees block 0.
deallocate_FreesFirst(a, ptr) ==
    LET i == FindBlock(a, ptr, 0) IN
    IF i < a.poolSize_
    THEN [a EXCEPT !.taken_[i] = FALSE, !.numTaken_ = a.numTaken_ - 1]
    ELSE [a EXCEPT !.taken_[0] = FALSE, !.numTaken_ = a.numTaken_ - 1]

\* void deallocate(T* ptr): the allocator after the call.  The matching block is
\* released and numTaken_ decremented whether or not taken_[i] was set.
deallocate(a, ptr) ==
    LET i == FindBlock(a, ptr, 0) IN
    IF i < a.poolSize_
    THEN [a EXCEPT !.taken_[i] = FALSE, !.numTaken_ = a.numTaken_ - 1]
    ELSE a

\* Allocator(poolSize, itemSize = sizeof(T)) called without itemSize, with
\* sizeof(T) as the unit of size.
DefaultLayout == [itemSize_ |-> 1, sizeofT |-> 1]

\* malloc(itemSize * poolSize): the number of bytes of the arena of n blocks.
ArenaBytes(l, n) == l.itemSize_ * n

\* The byte offset of pool_[i] = pool + i from the start of the arena: pool is
\* a T*, so the sum advances by sizeof(T) for each block.
BlockOffset(l, i) == pool_(i) * l.sizeofT

\* The bytes of block i: itemSize_ bytes from its address on.
BlockBytes(l, i) == BlockOffset(l, i) .. BlockOffset(l, i) + l.itemSize_ - 1

\* The history of a push and pop, when there is none to record.
NoTrip == [stage |-> "none", live |-> 0, taken |-> <<>>]

\* Every block of a is in use.
AllTaken(a) == \A i \in 0 .. a.poolSize_ - 1 : a.taken_[i]

\* No block of a is in use.
NoneTaken(a) == \A i \in 0 .. a.poolSize_ - 1 : ~a.taken_[i]

\* The pointers a client may hand to deallocate: the arena's, NULL, and
\* pointers that address no block of the arena.
ClientPtrs(a) == PoolPtrs(a) \cup {NULL} \cup (a.poolSize_ .. a.poolSize_ + NumForeign - 1)

\* ------------------------------------------------------------ StringPool
\* The handle that stands for no slot.
NoHandle == -1

\* The terminator of a string; the characters of a text are 1, 2, ...
NUL == 0

\* StringPool<numStrings, maxStrLen>: no slot in use; each slot has room for
\* maxStrLen characters and the terminator, and holds the empty string.
StringPoolInit(numStrings, maxStrLen) ==
    [numStrings |-> numStrings,
     maxStrLen  |-> maxStrLen,
     used       |-> [h \in 0 .. numStrings - 1 |-> FALSE],
     text       |-> [h \in 0 .. numStrings - 1 |-> [j \in 1 .. maxStrLen + 1 |-> NUL]]]

\* int max_str_len()
max_str_len(p) == p.maxStrLen

\* int available(): the number of free slots.
available(p) == Cardinality({h \in 0 .. p.numStrings - 1 : ~p.used[h]})

\* The scan of allocate_idx from handle h on: the first free handle, or
\* NoHandle when there is none.
RECURSIVE FirstFreeIdx(_, _)
FirstFreeIdx(p, h) ==
    IF h >= p.numStrings THEN NoHandle
    ELSE IF ~p.used[h] THEN h
    ELSE FirstFreeIdx(p, h + 1)

\* A faulty allocate_idx: it returns the handle and does not mark the slot.
allocate_idx_NoMark(p) == [p |-> p, idx |-> FirstFreeIdx(p, 0)]

\* int allocate_idx(): the pool after the call (p) and the handle returned (idx).
allocate_idx(p) ==
    LET h == FirstFreeIdx(p, 0) IN
    IF h = NoHandle
    THEN [p |-> p, idx |-> NoHandle]
    ELSE [p |-> [p EXCEPT !.used[h] = TRUE], idx |-> h]

\* A faulty deallocate_idx: a handle in range is freed and reported freed
\* whether or not its slot was in use.
deallocate_idx_NoUsedTest(p, h) ==
    IF h >= 0 /\ h < p.numStrings
    THEN [p |-> [p EXCEPT !.used[h] = FALSE], ok |-> TRUE]
    ELSE [p |-> p, ok |-> FALSE]

\* bool deallocate_idx(h): the pool after the call (p) and the result (ok).
deallocate_idx(p, h) ==
    IF h >= 0 /\ h < p.numStrings /\ p.used[h]
    THEN [p |-> [p EXCEPT !.used[h] = FALSE], ok |-> TRUE]
    ELSE [p |-> p, ok |-> FALSE]

\* The string variables when no StringPool exists.
StringIdle ==
    /\ pool = StringPoolInit(0, 0)
    /\ sdq = <<>>
    /\ held = {}
    /\ sret = [idx |-> NoHandle, ok |-> FALSE]
    /\ streak = [pure |-> FALSE, rets |-> <<>>]
    /\ avail0 = 0
    /\ ps = NoHandle
    /\ targ = <<>>

\* The allocator and Deque variables when neither exists.
\* No Deques sharing an Allocator are in use.
SharedIdle ==
    /\ dqs = <<>>
    /\ actor = 0

ContainersIdle ==
    /\ alloc = AllocatorInit(0)
    /\ layout = DefaultLayout
    /\ arg = NULL
    /\ ret = NULL
    /\ outstanding = {}
    /\ freed = {}
    /\ mem = <<>>
    /\ head = NULL
    /\ size_ = 0
    /\ life = "none"
    /\ fault = "none"
    /\ absSeq = <<>>
    /\ phase = "fresh"
    /\ atCtor = alloc
    /\ trip = NoTrip
    /\ SharedIdle

containerVars == <<alloc, layout, allocClientVars, dequeVars, sharedVars>>

\* ------------------------------------------- specification: one Allocator
InitAlloc ==
    /\ \E n \in 1 .. MaxPool : alloc = AllocatorInit(n)
    /\ \E s \in 1 .. MaxItemSize, t \in 1 .. MaxTypeSize :
           layout = [itemSize_ |-> s, sizeofT |-> t]
    /\ op = "Allocator"
    /\ arg = NULL
    /\ ret = NULL
    /\ outstanding = {}
    /\ freed = {}
    /\ mem = <<>>
    /\ head = NULL
    /\ size_ = 0
    /\ life = "none"
    /\ fault = "none"
    /\ absSeq = <<>>
    /\ phase = "fresh"
    /\ atCtor = alloc
    /\ trip = NoTrip
    /\ StringIdle
    /\ SharedIdle

\* A client calls allocate().
Allocate ==
    LET r == allocate(alloc) IN
    /\ alloc' = r.a
    /\ ret' = r.ret
    /\ op' = "allocate"
    /\ arg' = NULL
    /\ outstanding' = IF r.ret = NULL THEN outstanding ELSE outstanding \cup {r.ret}
    /\ freed' = freed \ {r.ret}
    /\ UNCHANGED <<dequeVars, layout, stringVars, sharedVars>>

\* A client calls deallocate(p) with any pointer.
Deallocate ==
    \E p \in ClientPtrs(alloc) :
        /\ alloc.numTaken_ > -MaxUnderflow
        /\ alloc' = deallocate(alloc, p)
        /\ op' = "deallocate"
        /\ arg' = p
        /\ ret' = NULL
        /\ outstanding' = outstanding \ {p}
        /\ freed' = IF p \in PoolPtrs(alloc) THEN freed \cup {p} ELSE freed
        /\ UNCHANGED <<dequeVars, layout, stringVars, sharedVars>>

NextAlloc == Allocate \/ Deallocate

SpecAlloc == InitAlloc /\ [][NextAlloc]_vars

\* ------------------------------------------------------ Allocator: claims

\* C1: in every reachable state numTaken_ is at most poolSize_, and no step
\* lowers maxNumTaken_.
C1_LiveBoundedMaxMonotone ==
    /\ [](alloc.numTaken_ <= alloc.poolSize_)
    /\ [][alloc'.maxNumTaken_ >= alloc.maxNumTaken_]_vars

\* C1 witness: the pool has been full and a deallocate has since lowered the
\* live count below the high-water mark.
C1_Witness ==
    /\ op = "deallocate"
    /\ alloc.maxNumTaken_ = alloc.poolSize_
    /\ alloc.numTaken_ < alloc.maxNumTaken_

\* C2 (as claimed): a deallocate of a pointer that was already deallocated, with
\* no allocate returning it in between, leaves the allocator unchanged.
C2_DoubleFreeNoOp ==
    [][(op' = "deallocate" /\ arg' \in freed) => alloc' = alloc]_vars

\* C3: a deallocate of a pointer that equals none of pool_[0..poolSize_-1]
\* leaves taken_, numTaken_ and maxNumTaken_ unchanged.
C3_ForeignPointerNoOp ==
    [][(op' = "deallocate" /\ arg' \notin PoolPtrs(alloc)) => alloc' = alloc]_vars

\* C3 witness: a foreign pointer (not NULL) was deallocated while a block was
\* in use.
C3_Witness ==
    /\ op = "deallocate"
    /\ arg \notin PoolPtrs(alloc)
    /\ arg # NULL
    /\ alloc.numTaken_ > 0

\* Whether the next n calls of allocate on a all return a block.
RECURSIVE NextAllocatesSucceed(_, _)
NextAllocatesSucceed(a, n) ==
    IF n = 0 THEN TRUE
    ELSE LET r == allocate(a) IN
         r.ret # NULL /\ NextAllocatesSucceed(r.a, n - 1)

\* C4 (as claimed): once every pointer allocate returned has been deallocated,
\* numTaken_ is 0 and the next poolSize_ calls of allocate all succeed.
C4_AllFreedThenEmpty ==
    outstanding = {} =>
        /\ alloc.numTaken_ = 0
        /\ NextAllocatesSucceed(alloc, alloc.poolSize_)

\* C5: when every block is in use, allocate returns NULL and leaves poolSize_,
\* taken_, numTaken_ and maxNumTaken_ unchanged.
C5_ExhaustedAllocateNoOp ==
    [][(AllTaken(alloc) /\ op' = "allocate") => (ret' = NULL /\ alloc' = alloc)]_vars

\* C5 witness: allocate was called on a full pool and returned NULL.
C5_Witness ==
    /\ op = "allocate"
    /\ ret = NULL
    /\ AllTaken(alloc)

\* The indices of the blocks of a that are handed out.
TakenBlocks(a) == {i \in 0 .. a.poolSize_ - 1 : a.taken_[i]}

\* C17 (as claimed): the blocks handed out are itemSize_ bytes each, block i
\* starts i * itemSize_ bytes into the arena, no two of them share a byte and
\* each lies inside the itemSize_ * poolSize_ bytes of the arena.
C17_BlocksDisjointInArena ==
    /\ \A i \in TakenBlocks(alloc) :
           /\ BlockOffset(layout, i) = i * layout.itemSize_
           /\ BlockBytes(layout, i) \subseteq 0 .. ArenaBytes(layout, alloc.poolSize_) - 1
    /\ \A i, j \in TakenBlocks(alloc) :
           i # j => BlockBytes(layout, i) \cap BlockBytes(layout, j) = {}

\* The larger of two integers.
Max(x, y) == IF x > y THEN x ELSE y

\* The free block of a with the lowest index.
LowestFree(a) ==
    CHOOSE i \in 0 .. a.poolSize_ - 1 :
        ~a.taken_[i] /\ \A j \in 0 .. i - 1 : a.taken_[j]

\* C18: when a block is free, allocate returns the free block with the lowest
\* index, sets exactly its in-use flag, adds 1 to numTaken_ and leaves
\* maxNumTaken_ at the larger of its old value and the new numTaken_.
C18_AllocateTakesLowestFree ==
    [][(~AllTaken(alloc) /\ op' = "allocate") =>
        LET i == LowestFree(alloc) IN
        /\ ret' = pool_(i)
        /\ alloc'.taken_ = [alloc.taken_ EXCEPT ![i] = TRUE]
        /\ alloc'.numTaken_ = alloc.numTaken_ + 1
        /\ alloc'.maxNumTaken_ = Max(alloc.maxNumTaken_, alloc.numTaken_ + 1)
        /\ alloc'.poolSize_ = alloc.poolSize_]_vars

\* C18 witness: allocate returned block 0 again while block 1 was in use and
\* block 2 free, the live count staying below the high-water mark.
C18_Witness ==
    /\ op = "allocate"
    /\ ret = pool_(0)
    /\ alloc.poolSize_ >= 3
    /\ alloc.taken_[1]
    /\ ~alloc.taken_[2]
    /\ alloc.numTaken_ < alloc.maxNumTaken_

\* C19 (as claimed): numTaken_ is the number of blocks whose in-use flag is
\* set, and 0 <= numTaken_ <= maxNumTaken_ <= poolSize_.
C19_LiveCountIsFlagCount ==
    /\ alloc.numTaken_ = Cardinality(TakenBlocks(alloc))
    /\ 0 <= alloc.numTaken_
    /\ alloc.numTaken_ <= alloc.maxNumTaken_
    /\ alloc.maxNumTaken_ <= alloc.poolSize_

\* ----------------------------------------------------------------- Deque
\* What a field of the arena holds before anything is written to it: malloc
\* does not initialise.  No operation below reads a field that holds Junk as
\* long as no write went through NULL.
Junk == -2

\* struct Node { T value; Node* next; Node* prev; } of uninitialised memory.
JunkNode == [value |-> Junk, next |-> Junk, prev |-> Junk]

\* The memory a Deque's nodes live in: one Node per block of allocator a, and
\* the Node-sized memory at address NULL that a write through NULL lands in.
ArenaInit(a) == [p \in PoolPtrs(a) \cup {NULL} |-> JunkNode]

\* static Allocator<Node> create_allocator(maxSize)
create_allocator(maxSize) == AllocatorInit(maxSize + 1)

\* The values of type T that are pushed.
Values == 1 .. MaxVal

\* The Deque and what it references, as one record.
D == [alloc |-> alloc, mem |-> mem, head |-> head, size_ |-> size_]

\* Deque(Allocator<Node>& allocator), on allocator a and memory m.
DequeCtor(a, m) ==
    LET r  == allocate(a)
        h  == r.ret
        m1 == [m EXCEPT ![h].next = h]
        m2 == [m1 EXCEPT ![h].prev = h]
    IN  [alloc |-> r.a, mem |-> m2, head |-> h, size_ |-> 0]

\* bool is_empty()
is_empty(d) == d.size_ = 0

\* A faulty push_front: next->prev = toInsert is left out.
push_front_NoBackLink(d, value) ==
    LET r        == allocate(d.alloc)
        toInsert == r.ret
        m1       == [d.mem EXCEPT ![toInsert].value = value]
        next     == m1[d.head].next
        m2       == [m1 EXCEPT ![toInsert].next = next]
        m3       == [m2 EXCEPT ![toInsert].prev = d.head]
        m5       == [m3 EXCEPT ![d.head].next = toInsert]
    IN  [alloc |-> r.a, mem |-> m5, head |-> d.head, size_ |-> d.size_ + 1]

\* void push_front(T const & value)
push_front(d, value) ==
    LET r        == allocate(d.alloc)
        toInsert == r.ret
        m1       == [d.mem EXCEPT ![toInsert].value = value]
        next     == m1[d.head].next
        m2       == [m1 EXCEPT ![toInsert].next = next]
        m3       == [m2 EXCEPT ![toInsert].prev = d.head]
        m4       == [m3 EXCEPT ![next].prev = toInsert]
        m5       == [m4 EXCEPT ![d.head].next = toInsert]
    IN  [alloc |-> r.a, mem |-> m5, head |-> d.head, size_ |-> d.size_ + 1]

\* A faulty pop_front: the node is unlinked and never handed back to the
\* allocator.
pop_front_NoDeallocate(d) ==
    IF is_empty(d) THEN d
    ELSE LET toRemove == d.mem[d.head].next
             next     == d.mem[toRemove].next
             m1       == [d.mem EXCEPT ![d.head].next = next]
             m2       == [m1 EXCEPT ![next].prev = d.head]
         IN  [alloc |-> d.alloc, mem |-> m2,
              head |-> d.head, size_ |-> d.size_ - 1]

\* void pop_front()
pop_front(d) ==
    IF is_empty(d) THEN d
    ELSE LET toRemove == d.mem[d.head].next
             next     == d.mem[toRemove].next
             m1       == [d.mem EXCEPT ![d.head].next = next]
             m2       == [m1 EXCEPT ![next].prev = d.head]
         IN  [alloc |-> deallocate(d.alloc, toRemove), mem |-> m2,
              head |-> d.head, size_ |-> d.size_ - 1]

\* A faulty push_back: the node is spliced in after the head, as push_front does.
push_back_AtFront(d, value) == push_front(d, value)

\* void push_back(T const & value)
push_back(d, value) ==
    LET r        == allocate(d.alloc)
        toInsert == r.ret
        m1       == [d.mem EXCEPT ![toInsert].value = value]
        prev     == m1[d.head].prev
        m2       == [m1 EXCEPT ![toInsert].next = d.head]
        m3       == [m2 EXCEPT ![toInsert].prev = prev]
        m4       == [m3 EXCEPT ![prev].next = toInsert]
        m5       == [m4 EXCEPT ![d.head].prev = toInsert]
    IN  [alloc |-> r.a, mem |-> m5, head |-> d.head, size_ |-> d.size_ + 1]

\* A faulty pop_back: the node after the head is removed, as pop_front does.
pop_back_AtFront(d) == pop_front(d)

\* A faulty pop_back: the emptiness test only guards the unlinking and --size_,
\* and head->prev is handed to deallocate in either case.
pop_back_FreesWhenEmpty(d) ==
    IF is_empty(d)
    THEN [d EXCEPT !.alloc = deallocate(d.alloc, d.mem[d.head].prev)]
    ELSE LET toRemove == d.mem[d.head].prev
             prev     == d.mem[toRemove].prev
             m1       == [d.mem EXCEPT ![d.head].prev = prev]
             m2       == [m1 EXCEPT ![prev].next = d.head]
         IN  [alloc |-> deallocate(d.alloc, toRemove), mem |-> m2,
              head |-> d.head, size_ |-> d.size_ - 1]

\* void pop_back()
pop_back(d) ==
    IF is_empty(d) THEN d
    ELSE LET toRemove == d.mem[d.head].prev
             prev     == d.mem[toRemove].prev
             m1       == [d.mem EXCEPT ![d.head].prev = prev]
             m2       == [m1 EXCEPT ![prev].next = d.head]
         IN  [alloc |-> deallocate(d.alloc, toRemove), mem |-> m2,
              head |-> d.head, size_ |-> d.size_ - 1]

\* The loop of ~Deque: while (!is_empty()) pop_front();
RECURSIVE Drain(_)
Drain(d) == IF is_empty(d) THEN d ELSE Drain(pop_front(d))

\* A faulty ~Deque: the elements are drained and the dummy head is not freed.
DequeDtor_LeaksHead(d) ==
    LET e == Drain(d) IN [e EXCEPT !.head = NULL]

\* ~Deque()
DequeDtor(d) ==
    LET e == Drain(d) IN
    [e EXCEPT !.alloc = deallocate(e.alloc, e.head), !.head = NULL]

\* T& front()
front(d) == d.mem[d.mem[d.head].next].value

\* T& back()
back(d) == d.mem[d.mem[d.head].prev].value

\* The loop of operator[]: from curr with counter j, follow next while j < i.
RECURSIVE Walk(_, _, _, _)
Walk(m, curr, j, i) == IF j < i THEN Walk(m, m[curr].next, j + 1, i) ELSE curr

\* T& operator[](int const & i)
operatorAt(d, i) == d.mem[Walk(d.mem, d.mem[d.head].next, 0, i)].value

\* How a member function that was handed ptr by allocate and writes through it
\* can end: normally, or, for NULL (undefined behaviour), with the process
\* stopped at the first write ("crashed") or with every write carried out on
\* the memory at address NULL ("wild").
Outcomes(ptr) == IF ptr = NULL THEN {"crashed", "wild"} ELSE {"none"}

\* The Deque after a member function that computes d and ends with outcome f.
SetDeque(d, f) ==
    /\ fault' = f
    /\ IF f = "crashed"
       THEN UNCHANGED <<alloc, mem, head, size_>>
       ELSE /\ alloc' = d.alloc
            /\ mem' = d.mem
            /\ head' = d.head
            /\ size_' = d.size_

\* The shape of the calls since construction:
\*   "fresh"    nothing has been pushed yet,
\*   "pushing"  only push_back has pushed, and nothing was popped since,
\*   "popping"  maxSize values were pushed by push_back, then only pops,
\*   "other"    anything else.
PhaseAfterPushBack(ph) == IF ph \in {"fresh", "pushing"} THEN "pushing" ELSE "other"

PhaseAfterPop(ph, d) ==
    IF ph = "fresh" THEN "fresh"
    ELSE IF ph = "popping" \/ (ph = "pushing" /\ d.size_ = d.alloc.poolSize_ - 1)
         THEN "popping"
         ELSE "other"

\* The history kept of a push (which: "push_front", "push_back") called when the
\* Deque held the values s and its allocator was a: a push onto the empty
\* Deque is recorded with the allocator's live count and in-use flags before it.
TripAfterPush(which, s, a) ==
    IF s = <<>>
    THEN [stage |-> which, live |-> a.numTaken_, taken |-> a.taken_]
    ELSE NoTrip

\* The history kept of a pop (which: "pop_front", "pop_back") after history t:
\* a pop at the other end directly after the recorded push completes the trip.
TripAfterPop(which, t) ==
    IF t.stage = "push_front" /\ which = "pop_back"
    THEN [t EXCEPT !.stage = "push_front;pop_back"]
    ELSE IF t.stage = "push_back" /\ which = "pop_front"
         THEN [t EXCEPT !.stage = "push_back;pop_front"]
         ELSE NoTrip

\* The sequence s without its first / last element; s itself when it is empty.
DropFirst(s) == IF s = <<>> THEN s ELSE Tail(s)
DropLast(s) == IF s = <<>> THEN s ELSE SubSeq(s, 1, Len(s) - 1)

\* ------------------------- specification: one Deque on its own allocator
InitDeque ==
    /\ \E maxSize \in 1 .. MaxDequeSize : alloc = create_allocator(maxSize)
    /\ mem = ArenaInit(alloc)
    /\ head = NULL
    /\ size_ = 0
    /\ life = "none"
    /\ fault = "none"
    /\ op = "create_allocator"
    /\ layout = DefaultLayout
    /\ absSeq = <<>>
    /\ phase = "fresh"
    /\ atCtor = alloc
    /\ trip = NoTrip
    /\ StringIdle
    /\ SharedIdle
    /\ arg = NULL
    /\ ret = NULL
    /\ outstanding = {}
    /\ freed = {}

\* Deque<T> d(allocator): the Deque is constructed on the allocator that
\* create_allocator returned.
Construct ==
    /\ life = "none"
    /\ fault = "none"
    /\ LET d == DequeCtor(alloc, mem) IN
       \E f \in Outcomes(d.head) : SetDeque(d, f)
    /\ life' = "live"
    /\ op' = "Deque"
    /\ absSeq' = <<>>
    /\ phase' = "fresh"
    /\ atCtor' = alloc
    /\ trip' = NoTrip
    /\ UNCHANGED <<allocClientVars, layout, stringVars, sharedVars>>

\* d.push_front(v)
PushFront ==
    /\ life = "live"
    /\ fault = "none"
    /\ \E v \in Values :
        /\ \E f \in Outcomes(allocate(alloc).ret) : SetDeque(push_front(D, v), f)
        /\ absSeq' = <<v>> \o absSeq
    /\ op' = "push_front"
    /\ phase' = "other"
    /\ trip' = TripAfterPush("push_front", absSeq, alloc)
    /\ UNCHANGED <<life, atCtor>>
    /\ UNCHANGED <<allocClientVars, layout, stringVars, sharedVars>>

\* d.push_back(v)
PushBack ==
    /\ life = "live"
    /\ fault = "none"
    /\ \E v \in Values :
        /\ \E f \in Outcomes(allocate(alloc).ret) : SetDeque(push_back(D, v), f)
        /\ absSeq' = Append(absSeq, v)
    /\ op' = "push_back"
    /\ phase' = PhaseAfterPushBack(phase)
    /\ trip' = TripAfterPush("push_back", absSeq, alloc)
    /\ UNCHANGED <<life, atCtor>>
    /\ UNCHANGED <<allocClientVars, layout, stringVars, sharedVars>>

\* d.pop_front()
PopFront ==
    /\ life = "live"
    /\ fault = "none"
    /\ SetDeque(pop_front(D), "none")
    /\ op' = "pop_front"
    /\ absSeq' = DropFirst(absSeq)
    /\ phase' = PhaseAfterPop(phase, D)
    /\ trip' = TripAfterPop("pop_front", trip)
    /\ UNCHANGED <<life, atCtor>>
    /\ UNCHANGED <<allocClientVars, layout, stringVars, sharedVars>>

\* d.pop_back()
PopBack ==
    /\ life = "live"
    /\ fault = "none"
    /\ SetDeque(pop_back(D), "none")
    /\ op' = "pop_back"
    /\ absSeq' = DropLast(absSeq)
    /\ phase' = PhaseAfterPop(phase, D)
    /\ trip' = TripAfterPop("pop_back", trip)
    /\ UNCHANGED <<life, atCtor>>
    /\ UNCHANGED <<allocClientVars, layout, stringVars, sharedVars>>

\* The Deque goes out of scope: ~Deque().
Destroy ==
    /\ life = "live"
    /\ fault = "none"
    /\ SetDeque(DequeDtor(D), "none")
    /\ life' = "destroyed"
    /\ op' = "~Deque"
    /\ trip' = NoTrip
    /\ UNCHANGED <<absSeq, phase, atCtor>>
    /\ UNCHANGED <<allocClientVars, layout, stringVars, sharedVars>>

NextDeque == Construct \/ PushFront \/ PushBack \/ PopFront \/ PopBack \/ Destroy

SpecDeque == InitDeque /\ [][NextDeque]_vars

\* ---------------------------------------------------------- Deque: claims

\* C6 (as claimed): a push_front or push_back called when the allocator has no
\* free block fails explicitly: nothing is written through NULL (the call
\* neither crashes nor writes wild), and mem, head and size_ are unchanged.
C6_PushOnFullFailsExplicitly ==
    [][(life = "live" /\ fault = "none" /\ AllTaken(alloc)
            /\ op' \in {"push_front", "push_back"})
        => (fault' = "none" /\ mem' = mem /\ head' = head /\ size_' = size_)]_vars

\* The node reached from p by k steps along next (prev); the walk stops at a
\* pointer that addresses no node.
RECURSIVE RingNext(_, _, _)
RingNext(m, p, k) ==
    IF k = 0 \/ p \notin DOMAIN m THEN p ELSE RingNext(m, m[p].next, k - 1)

RECURSIVE RingPrev(_, _, _)
RingPrev(m, p, k) ==
    IF k = 0 \/ p \notin DOMAIN m THEN p ELSE RingPrev(m, m[p].prev, k - 1)

\* The nodes reached from head by 0 .. size_ steps along next.
RingNodes == {RingNext(mem, head, k) : k \in 0 .. size_}

\* C7: while the Deque lives and stayed within capacity, following next from
\* head visits size_+1 distinct nodes and is back at head after exactly
\* size_+1 steps, following prev visits the same nodes in reverse order, and
\* n.next.prev = n and n.prev.next = n for every node n of the ring.
C7_RingWellFormed ==
    (life = "live" /\ fault = "none") =>
        /\ RingNodes \subseteq PoolPtrs(alloc)
        /\ Cardinality(RingNodes) = size_ + 1
        /\ RingNext(mem, head, size_ + 1) = head
        /\ \A k \in 0 .. size_ + 1 :
               RingPrev(mem, head, k) = RingNext(mem, head, size_ + 1 - k)
        /\ \A n \in RingNodes :
               /\ mem[mem[n].next].prev = n
               /\ mem[mem[n].prev].next = n

\* C7 witness: a ring of at least two elements, built by pushes at both ends
\* and just popped from.
C7_Witness ==
    /\ life = "live"
    /\ fault = "none"
    /\ phase = "other"
    /\ op = "pop_front"
    /\ size_ >= 2
    /\ absSeq[1] # absSeq[2]

\* C8: on a Deque of capacity maxSize = poolSize_ - 1, after maxSize push_back
\* calls operator[](i) is the (i+1)-th value pushed for every i in
\* 0 .. maxSize-1; after maxSize pops that follow them size_ is 0 and the dummy
\* head is the only block in use.
C8_PushBackOrderThenDrain ==
    (life = "live" /\ fault = "none") =>
        /\ (phase = "pushing" /\ Len(absSeq) = alloc.poolSize_ - 1) =>
               \A i \in 0 .. alloc.poolSize_ - 2 : operatorAt(D, i) = absSeq[i + 1]
        /\ (phase = "popping" /\ absSeq = <<>>) =>
               /\ size_ = 0
               /\ alloc.numTaken_ = 1
               /\ \A i \in 0 .. alloc.poolSize_ - 1 :
                      alloc.taken_[i] <=> (pool_(i) = head)

\* C8 witness: a Deque of capacity at least 2 was filled by push_back and then
\* emptied by pops.
C8_Witness ==
    /\ life = "live"
    /\ fault = "none"
    /\ phase = "popping"
    /\ absSeq = <<>>
    /\ alloc.poolSize_ >= 3
    /\ alloc.maxNumTaken_ = alloc.poolSize_
    /\ op \in {"pop_front", "pop_back"}

\* C9: after the destructor the allocator's in-use flags and live count are
\* what they were when the constructor was entered.
C9_DestructorReturnsEveryBlock ==
    life = "destroyed" =>
        /\ alloc.taken_ = atCtor.taken_
        /\ alloc.numTaken_ = atCtor.numTaken_

\* C9 witness: a Deque that held at least two elements, after pushes and pops
\* at both ends, was destroyed.
C9_Witness ==
    /\ life = "destroyed"
    /\ op = "~Deque"
    /\ phase = "other"
    /\ Len(absSeq) >= 2

\* C10: pop_front and pop_back on an empty Deque change nothing: size_ stays
\* 0, head->next and head->prev still are head, and the allocator is unchanged.
C10_PopOnEmptyNoOp ==
    [][(life = "live" /\ fault = "none" /\ size_ = 0
            /\ op' \in {"pop_front", "pop_back"})
        => (/\ size_' = 0
            /\ head' = head
            /\ mem'[head'].next = head'
            /\ mem'[head'].prev = head'
            /\ alloc' = alloc)]_vars

\* C10 witness: pop_back was called on a Deque onto which nothing had been
\* pushed since its construction.
C10_Witness ==
    /\ life = "live"
    /\ phase = "fresh"
    /\ op = "pop_back"
    /\ size_ = 0

\* C11: a push_front onto the empty Deque directly followed by pop_back, and a
\* push_back onto it directly followed by pop_front, leave the Deque as it was
\* before the push: size_ is 0, head->next and head->prev are head, and the
\* allocator's live count and in-use flags are those before the push.
C11_PushThenPopOtherEnd ==
    (life = "live" /\ fault = "none"
        /\ trip.stage \in {"push_front;pop_back", "push_back;pop_front"}) =>
        /\ size_ = 0
        /\ mem[head].next = head
        /\ mem[head].prev = head
        /\ alloc.numTaken_ = trip.live
        /\ alloc.taken_ = trip.taken

\* C11 witness: push_back onto the empty Deque was directly followed by
\* pop_front.
C11_Witness ==
    /\ life = "live"
    /\ fault = "none"
    /\ op = "pop_front"
    /\ trip.stage = "push_back;pop_front"

\* The values met by following next from node p until head h is reached, in at
\* most fuel steps.
RECURSIVE RingValues(_, _, _, _)
RingValues(m, h, p, fuel) ==
    IF p = h \/ p \notin DOMAIN m \/ fuel = 0 THEN <<>>
    ELSE <<m[p].value>> \o RingValues(m, h, m[p].next, fuel - 1)

\* C16: while the Deque lives and stayed within capacity, the values read by
\* following next from the dummy head are the sequence that prepend, append,
\* drop-first and drop-last build from the empty sequence; size_ is its length,
\* and when it is not empty front() is its first element, back() its last and
\* operator[](i) its (i+1)-th for 0 <= i < size_.
C16_RefinesSequence ==
    (life = "live" /\ fault = "none") =>
        /\ RingValues(mem, head, mem[head].next, Cardinality(DOMAIN mem)) = absSeq
        /\ size_ = Len(absSeq)
        /\ absSeq # <<>> =>
               /\ front(D) = absSeq[1]
               /\ back(D) = absSeq[Len(absSeq)]
               /\ \A i \in 0 .. size_ - 1 : operatorAt(D, i) = absSeq[i + 1]

\* C16 witness: a Deque of three elements, not all equal, built by pushes and
\* pops at both ends, the last call a push_front.
C16_Witness ==
    /\ life = "live"
    /\ fault = "none"
    /\ phase = "other"
    /\ op = "push_front"
    /\ Len(absSeq) = 3
    /\ absSeq[1] # absSeq[3]
    /\ alloc.maxNumTaken_ = alloc.poolSize_

\* ------------------------------------- specification: one StringPool
\* The results of the allocate_idx calls after one more, r: kept while only
\* allocate_idx was called and for numStrings + 1 calls at most.
StreakAfter(st, r, p) ==
    IF st.pure /\ Len(st.rets) <= p.numStrings
    THEN [st EXCEPT !.rets = Append(st.rets, r)]
    ELSE [pure |-> FALSE, rets |-> <<>>]

InitStringPool ==
    /\ \E k \in 1 .. MaxStrings : pool = StringPoolInit(k, 1)
    /\ sdq = <<>>
    /\ held = {}
    /\ sret = [idx |-> NoHandle, ok |-> FALSE]
    /\ streak = [pure |-> TRUE, rets |-> <<>>]
    /\ avail0 = available(pool)
    /\ ps = NoHandle
    /\ targ = <<>>
    /\ op = "StringPool"
    /\ ContainersIdle

\* stringPool.allocate_idx()
AllocateIdx ==
    LET r == allocate_idx(pool) IN
    /\ pool' = r.p
    /\ sret' = [idx |-> r.idx, ok |-> FALSE]
    /\ streak' = StreakAfter(streak, r.idx, pool)
    /\ op' = "allocate_idx"
    /\ UNCHANGED <<sdq, held, avail0, ps, targ, containerVars>>

\* stringPool.deallocate_idx(h), for any handle: in range, the sentinel, or
\* one past the last slot.
DeallocateIdx ==
    \E h \in -1 .. pool.numStrings :
        LET r == deallocate_idx(pool, h) IN
        /\ pool' = r.p
        /\ sret' = [idx |-> h, ok |-> r.ok]
        /\ streak' = [pure |-> FALSE, rets |-> <<>>]
        /\ op' = "deallocate_idx"
        /\ UNCHANGED <<sdq, held, avail0, ps, targ, containerVars>>

NextStringPool == AllocateIdx \/ DeallocateIdx

SpecStringPool == InitStringPool /\ [][NextStringPool]_vars

\* C12: of the allocate_idx calls made on the new pool, the first numStrings
\* return distinct handles in 0 .. numStrings-1 and the next returns NoHandle;
\* deallocate_idx(h) returns true exactly when h is in use, and when it returns
\* false (h free, out of range or NoHandle) available() is unchanged.
C12_PoolCapacityAndDoubleFree ==
    /\ [](streak.pure =>
            /\ \A n \in 1 .. Len(streak.rets) :
                   IF n <= pool.numStrings
                   THEN /\ streak.rets[n] \in 0 .. pool.numStrings - 1
                        /\ \A k \in 1 .. n - 1 : streak.rets[k] # streak.rets[n]
                   ELSE streak.rets[n] = NoHandle
            /\ available(pool) =
                   IF Len(streak.rets) <= pool.numStrings
                   THEN pool.numStrings - Len(streak.rets)
                   ELSE 0)
    /\ [][op' = "deallocate_idx" =>
            /\ sret'.ok <=> (sret'.idx \in 0 .. pool.numStrings - 1 /\ pool.used[sret'.idx])
            /\ sret'.ok => available(pool') = available(pool) + 1
            /\ ~sret'.ok => available(pool') = available(pool)]_vars

\* C12 witness: numStrings + 1 allocate_idx calls were made on a new pool of
\* at least two slots, the last returning NoHandle.
C12_Witness ==
    /\ streak.pure
    /\ pool.numStrings >= 2
    /\ Len(streak.rets) = pool.numStrings + 1
    /\ op = "allocate_idx"
    /\ sret.idx = NoHandle

\* ----------------------------------------------------------- StringDeque
\* The StringDeque objects that reference the pool.
SDequeIds == {1, 2}

\* The pool after n PoolStrings were constructed on it: each took a slot with
\* allocate_idx.
RECURSIVE PoolAfterStrings(_, _)
PoolAfterStrings(p, n) ==
    IF n = 0 THEN p ELSE PoolAfterStrings(allocate_idx(p).p, n - 1)

\* void StringDeque::push_back(h): the handles q of the deque after the call.
StringDeque_push_back(q, h) == Append(q, h)

\* A faulty pop_back: the handle is removed and not deallocated from the pool.
StringDeque_pop_back_NoDeallocate(q, p) ==
    [q |-> DropLast(q), p |-> p, idx |-> q[Len(q)]]

\* void StringDeque::pop_back(), the deque not empty: its handles (q) and the
\* pool (p) after the call, and the handle removed (idx), which is deallocated.
StringDeque_pop_back(q, p) ==
    [q |-> DropLast(q), p |-> deallocate_idx(p, q[Len(q)]).p, idx |-> q[Len(q)]]

\* A faulty pop_front: the handle is removed and not deallocated from the pool.
StringDeque_pop_front_NoDeallocate(q, p) ==
    [q |-> DropFirst(q), p |-> p, idx |-> q[1]]

\* void StringDeque::pop_front(), the deque not empty.
StringDeque_pop_front(q, p) ==
    [q |-> DropFirst(q), p |-> deallocate_idx(p, q[1]).p, idx |-> q[1]]

\* The number of handles the StringDeques hold.
RECURSIVE SumLen(_, _)
SumLen(qs, ids) ==
    IF ids = {} THEN 0
    ELSE LET d == CHOOSE x \in ids : TRUE IN Len(qs[d]) + SumLen(qs, ids \ {d})

\* --------------- specification: StringDeques and their caller on one pool
InitStringDeque ==
    /\ \E k \in 1 .. MaxStrings, n0 \in 0 .. MaxStrings - 1 :
           /\ n0 < k
           /\ pool = PoolAfterStrings(StringPoolInit(k, 1), n0)
    /\ sdq = [d \in SDequeIds |-> <<>>]
    /\ held = {}
    /\ sret = [idx |-> NoHandle, ok |-> FALSE]
    /\ streak = [pure |-> FALSE, rets |-> <<>>]
    /\ avail0 = available(pool)
    /\ ps = NoHandle
    /\ targ = <<>>
    /\ op = "StringDeque"
    /\ ContainersIdle

\* The caller obtains a handle: stringPool.allocate_idx().
CallerAllocateIdx ==
    LET r == allocate_idx(pool) IN
    /\ pool' = r.p
    /\ sret' = [idx |-> r.idx, ok |-> FALSE]
    /\ held' = IF r.idx = NoHandle THEN held ELSE held \cup {r.idx}
    /\ op' = "allocate_idx"
    /\ UNCHANGED <<sdq, streak, avail0, ps, targ, containerVars>>

\* strings.push_back(h), for a handle h the caller holds.
StringPushBack ==
    \E d \in SDequeIds, h \in held :
        /\ sdq' = [sdq EXCEPT ![d] = StringDeque_push_back(sdq[d], h)]
        /\ held' = held \ {h}
        /\ sret' = [idx |-> h, ok |-> FALSE]
        /\ op' = "StringDeque::push_back"
        /\ UNCHANGED <<pool, streak, avail0, ps, targ, containerVars>>

\* strings.pop_back(), the deque not empty.
StringPopBack ==
    \E d \in SDequeIds :
        /\ sdq[d] # <<>>
        /\ LET r == StringDeque_pop_back(sdq[d], pool) IN
            /\ sdq' = [sdq EXCEPT ![d] = r.q]
            /\ pool' = r.p
            /\ sret' = [idx |-> r.idx, ok |-> FALSE]
        /\ op' = "StringDeque::pop_back"
        /\ UNCHANGED <<held, streak, avail0, ps, targ, containerVars>>

\* strings.pop_front(), the deque not empty.
StringPopFront ==
    \E d \in SDequeIds :
        /\ sdq[d] # <<>>
        /\ LET r == StringDeque_pop_front(sdq[d], pool) IN
            /\ sdq' = [sdq EXCEPT ![d] = r.q]
            /\ pool' = r.p
            /\ sret' = [idx |-> r.idx, ok |-> FALSE]
        /\ op' = "StringDeque::pop_front"
        /\ UNCHANGED <<held, streak, avail0, ps, targ, containerVars>>

NextStringDeque == CallerAllocateIdx \/ StringPushBack \/ StringPopBack \/ StringPopFront

SpecStringDeque == InitStringDeque /\ [][NextStringDeque]_vars

\* C13 (as claimed): on a pool nothing else took a slot of, the number of
\* handles held by the StringDeques plus available() is numStrings in every
\* reachable state.
C13_DequeHandlesPlusAvailable ==
    avail0 = pool.numStrings =>
        SumLen(sdq, SDequeIds) + available(pool) = pool.numStrings

\* C13 (amended): on such a pool, the number of handles held by the
\* StringDeques, plus the number of handles allocate_idx returned to the caller
\* that were not pushed yet, plus available() is numStrings.
C13_HandlesHeldPlusAvailable ==
    avail0 = pool.numStrings =>
        SumLen(sdq, SDequeIds) + Cardinality(held) + available(pool) = pool.numStrings

\* C13 witness: both StringDeques hold handles, the caller holds one it has not
\* pushed, and a handle was just popped.
C13_Witness ==
    /\ avail0 = pool.numStrings
    /\ \A d \in SDequeIds : sdq[d] # <<>>
    /\ held # {}
    /\ op = "StringDeque::pop_front"

\* C14: whenever every handle that was allocated and pushed has been popped
\* again, each StringDeque has size 0 and available() is what it was before the
\* handles were allocated; and each pop removes one handle and leaves it free
\* in the pool, so that deallocate_idx on it returns false.
C14_PushPopRoundTrip ==
    /\ []((held = {} /\ SumLen(sdq, SDequeIds) = 0) => available(pool) = avail0)
    /\ [][op' \in {"StringDeque::pop_back", "StringDeque::pop_front"} =>
            /\ SumLen(sdq', SDequeIds) = SumLen(sdq, SDequeIds) - 1
            /\ pool.used[sret'.idx]
            /\ ~pool'.used[sret'.idx]
            /\ ~deallocate_idx(pool', sret'.idx).ok
            /\ available(pool') = available(pool) + 1]_vars

\* C14 witness: handles 0 and 1 were allocated and pushed, and both have been
\* popped, handle 1 last by pop_back; available() is back at numStrings.
C14_Witness ==
    /\ op = "StringDeque::pop_back"
    /\ sret.idx = 1
    /\ avail0 = pool.numStrings
    /\ held = {}
    /\ SumLen(sdq, SDequeIds) = 0
    /\ available(pool) = avail0

\* ------------------------------------------------------------ PoolString
MaxStrLen == 2
MaxChar == 2
MaxText == 3
NumOtherStrings == 1

Min(a, b) == IF a <= b THEN a ELSE b

\* The characters of a text, and the texts a caller passes.
Chars == 1 .. MaxChar
Texts == UNION {[1 .. n -> Chars] : n \in 0 .. MaxText}

\* strlen on the bytes b of a slot from position i on: the number of bytes
\* before the first terminator.
RECURSIVE StrLenFrom(_, _)
StrLenFrom(b, i) ==
    IF i > Len(b) \/ b[i] = NUL THEN 0 ELSE 1 + StrLenFrom(b, i + 1)

\* const char* c_str(h): the content of slot h, up to its terminator.
c_str(p, h) == SubSeq(p.text[h], 1, StrLenFrom(p.text[h], 1))

\* The bytes b of a slot after text t, cut to n characters, is written from
\* position i + 1 on and terminated; the bytes behind the terminator stay.
WriteAt(b, i, t, n) ==
    [j \in 1 .. Len(b) |->
        IF j > i /\ j <= i + n THEN t[j - i]
        ELSE IF j = i + n + 1 THEN NUL
        ELSE b[j]]

\* A faulty strcpy: the characters are copied and no terminator is written.
strcpy_NoTerminator(p, h, t) ==
    [p EXCEPT !.text[h] =
        [j \in 1 .. Len(p.text[h]) |->
            IF j <= Min(Len(t), p.maxStrLen) THEN t[j] ELSE p.text[h][j]]]

\* void strcpy(h, text): the pool after slot h is overwritten with text, cut
\* to max_str_len() characters.
strcpy(p, h, t) ==
    [p EXCEPT !.text[h] = WriteAt(p.text[h], 0, t, Min(Len(t), max_str_len(p)))]

\* A faulty strcat: the text replaces the content.
strcat_Overwrites(p, h, t) == strcpy(p, h, t)

\* void strcat(h, text): the pool after text is written behind the content of
\* slot h, the whole cut to max_str_len() characters.
strcat(p, h, t) ==
    LET c == StrLenFrom(p.text[h], 1) IN
    [p EXCEPT !.text[h] =
        WriteAt(p.text[h], c, t, Min(Len(t), max_str_len(p) - c))]

\* ------------------------- specification: one PoolString on a StringPool
\* StringPool<K, m> stringPool; the other PoolStrings, then the PoolString
\* observed, are constructed on it: each owns a slot and is the empty string.
InitPoolString ==
    /\ \E m \in 1 .. MaxStrLen, n0 \in 0 .. NumOtherStrings :
        LET r == allocate_idx(PoolAfterStrings(StringPoolInit(n0 + 1, m), n0)) IN
        /\ pool = r.p
        /\ ps = r.idx
    /\ targ = <<>>
    /\ sdq = <<>>
    /\ held = {}
    /\ sret = [idx |-> NoHandle, ok |-> FALSE]
    /\ streak = [pure |-> FALSE, rets |-> <<>>]
    /\ avail0 = available(pool)
    /\ op = "PoolString"
    /\ ContainersIdle

\* string = text
Assign ==
    \E t \in Texts :
        /\ pool' = strcpy(pool, ps, t)
        /\ targ' = t
        /\ op' = "PoolString::operator="
        /\ UNCHANGED <<ps, sdq, held, sret, streak, avail0, containerVars>>

\* string.strcat(text)
Strcat ==
    \E t \in Texts :
        /\ pool' = strcat(pool, ps, t)
        /\ targ' = t
        /\ op' = "PoolString::strcat"
        /\ UNCHANGED <<ps, sdq, held, sret, streak, avail0, containerVars>>

\* string += text
PlusAssign ==
    \E t \in Texts :
        /\ pool' = strcat(pool, ps, t)
        /\ targ' = t
        /\ op' = "PoolString::operator+="
        /\ UNCHANGED <<ps, sdq, held, sret, streak, avail0, containerVars>>

NextPoolString == Assign \/ Strcat \/ PlusAssign

SpecPoolString == InitPoolString /\ [][NextPoolString]_vars

\* C15: the content of a PoolString is never longer than max_str_len(); an
\* assignment of t leaves the first min(|t|, m) characters of t; an append of
\* t leaves the first min(|c| + |t|, m) characters of c followed by t, c being
\* the content before; and neither changes the slot owned, the slots in use or
\* the content of another slot.
C15_AssignAppendTruncate ==
    /\ [](ps \in 0 .. pool.numStrings - 1 /\ pool.used[ps]
            /\ Len(c_str(pool, ps)) <= max_str_len(pool))
    /\ [][op' = "PoolString::operator=" =>
            c_str(pool', ps') =
                SubSeq(targ', 1, Min(Len(targ'), max_str_len(pool)))]_vars
    /\ [][op' \in {"PoolString::strcat", "PoolString::operator+="} =>
            LET c == c_str(pool, ps) IN
            c_str(pool', ps') =
                SubSeq(c \o targ', 1, Min(Len(c) + Len(targ'), max_str_len(pool)))]_vars
    /\ [][/\ ps' = ps
          /\ pool'.used = pool.used
          /\ max_str_len(pool') = max_str_len(pool)
          /\ \A h \in 0 .. pool.numStrings - 1 :
                h # ps => pool'.text[h] = pool.text[h]]_vars

\* C15 witness: with maximum length 2, an append of a text of 2 characters to
\* a content of 1 character was cut: the content is 2 characters and ends with
\* the first character of the text, in the second slot of the pool.
C15_Witness ==
    /\ op = "PoolString::strcat"
    /\ max_str_len(pool) = 2
    /\ ps = 1
    /\ Len(targ) = 2
    /\ targ[1] # targ[2]
    /\ Len(c_str(pool, ps)) = 2
    /\ c_str(pool, ps)[2] = targ[1]
    /\ c_str(pool, ps)[1] # targ[1]

\* ------------------------------------------- Deques sharing one Allocator
\* The capacities of the shared Allocator: room for the two dummy heads and
\* for up to two values.
SharedPoolSizes == {2, 3, 4}

\* The Deque objects constructed on the one Allocator.
SharedIds == {1, 2}

\* Deque i and what it references, as one record.
DS(i) == [alloc |-> alloc, mem |-> mem, head |-> dqs[i].head, size_ |-> dqs[i].size_]

\* Deque i after a member function that computes d and ends with outcome f;
\* life is what the call leaves of the object.
SetShared(i, d, f, l) ==
    /\ fault' = f
    /\ actor' = i
    /\ IF f = "crashed"
       THEN /\ UNCHANGED <<alloc, mem>>
            /\ dqs' = [dqs EXCEPT ![i].life = l]
       ELSE /\ alloc' = d.alloc
            /\ mem' = d.mem
            /\ dqs' = [dqs EXCEPT ![i] = [head |-> d.head, size_ |-> d.size_, life |-> l]]

\* --------------------- specification: two Deques on one shared Allocator
\* Allocator<Node> alloc(n); no Deque is constructed on it yet.
InitShared ==
    /\ \E n \in SharedPoolSizes : alloc = AllocatorInit(n)
    /\ mem = ArenaInit(alloc)
    /\ dqs = [i \in SharedIds |-> [head |-> NULL, size_ |-> 0, life |-> "none"]]
    /\ actor = 0
    /\ fault = "none"
    /\ op = "Allocator"
    /\ layout = DefaultLayout
    /\ head = NULL
    /\ size_ = 0
    /\ life = "none"
    /\ absSeq = <<>>
    /\ phase = "fresh"
    /\ atCtor = alloc
    /\ trip = NoTrip
    /\ arg = NULL
    /\ ret = NULL
    /\ outstanding = {}
    /\ freed = {}
    /\ StringIdle

SharedRest == <<head, size_, life, absSeq, phase, atCtor, trip,
                allocClientVars, layout, stringVars>>

\* Deque<T> d_i(alloc)
SharedConstruct ==
    \E i \in SharedIds :
        /\ dqs[i].life = "none"
        /\ fault = "none"
        /\ LET d == DequeCtor(alloc, mem) IN
           \E f \in Outcomes(d.head) : SetShared(i, d, f, "live")
        /\ op' = "Deque"
        /\ UNCHANGED SharedRest

\* d_i.push_front(v)
SharedPushFront ==
    \E i \in SharedIds, v \in Values :
        /\ dqs[i].life = "live"
        /\ fault = "none"
        /\ \E f \in Outcomes(allocate(alloc).ret) :
               SetShared(i, push_front(DS(i), v), f, "live")
        /\ op' = "push_front"
        /\ UNCHANGED SharedRest

\* d_i.push_back(v)
SharedPushBack ==
    \E i \in SharedIds, v \in Values :
        /\ dqs[i].life = "live"
        /\ fault = "none"
        /\ \E f \in Outcomes(allocate(alloc).ret) :
               SetShared(i, push_back(DS(i), v), f, "live")
        /\ op' = "push_back"
        /\ UNCHANGED SharedRest

\* d_i.pop_front()
SharedPopFront ==
    \E i \in SharedIds :
        /\ dqs[i].life = "live"
        /\ fault = "none"
        /\ SetShared(i, pop_front(DS(i)), "none", "live")
        /\ op' = "pop_front"
        /\ UNCHANGED SharedRest

\* d_i.pop_back()
SharedPopBack ==
    \E i \in SharedIds :
        /\ dqs[i].life = "live"
        /\ fault = "none"
        /\ SetShared(i, pop_back(DS(i)), "none", "live")
        /\ op' = "pop_back"
        /\ UNCHANGED SharedRest

\* d_i goes out of scope: ~Deque().
SharedDestroy ==
    \E i \in SharedIds :
        /\ dqs[i].life = "live"
        /\ fault = "none"
        /\ SetShared(i, DequeDtor(DS(i)), "none", "destroyed")
        /\ op' = "~Deque"
        /\ UNCHANGED SharedRest

NextShared ==
    \/ SharedConstruct \/ SharedPushFront \/ SharedPushBack
    \/ SharedPopFront \/ SharedPopBack \/ SharedDestroy

SpecShared == InitShared /\ [][NextShared]_vars

\* The Deques of ds that are live.
LiveDeques(ds) == {i \in SharedIds : ds[i].life = "live"}

\* The nodes of the ring of Deque i of ds in memory m, and the values read
\* along next from its head.
SharedRing(m, ds, i) == {RingNext(m, ds[i].head, k) : k \in 0 .. ds[i].size_}

SharedValues(m, ds, i) ==
    RingValues(m, ds[i].head, m[ds[i].head].next, Cardinality(DOMAIN m))

\* The sum of size() + 1 over the Deques ids of ds.
RECURSIVE SumNodes(_, _)
SumNodes(ds, ids) ==
    IF ids = {} THEN 0
    ELSE LET i == CHOOSE x \in ids : TRUE IN
         ds[i].size_ + 1 + SumNodes(ds, ids \ {i})

\* C20: while the Deques that share the Allocator stayed within its capacity,
\* no block is in two rings, every ring has size()+1 nodes and all of them are
\* marked taken, the live count is the sum of size()+1 over the live Deques,
\* and a member function called on one Deque leaves every other Deque's head,
\* size, ring and values as they were.
C20_SharedAllocatorIsolation ==
    /\ [](fault = "none" =>
            /\ \A i \in LiveDeques(dqs) :
                   /\ SharedRing(mem, dqs, i) \subseteq TakenBlocks(alloc)
                   /\ Cardinality(SharedRing(mem, dqs, i)) = dqs[i].size_ + 1
                   /\ \A j \in LiveDeques(dqs) \ {i} :
                          SharedRing(mem, dqs, i) \cap SharedRing(mem, dqs, j) = {}
            /\ alloc.numTaken_ = SumNodes(dqs, LiveDeques(dqs)))
    /\ [][fault' = "none" =>
            \A j \in SharedIds \ {actor'} :
                /\ dqs'[j] = dqs[j]
                /\ j \in LiveDeques(dqs) =>
                       /\ SharedRing(mem', dqs', j) = SharedRing(mem, dqs, j)
                       /\ SharedValues(mem', dqs', j) = SharedValues(mem, dqs, j)]_vars

\* C20 witness: both Deques live and hold a value, a node of Deque 2 lies
\* between two nodes of Deque 1 in the arena, and Deque 1 was just pushed onto.
C20_Witness ==
    /\ fault = "none"
    /\ LiveDeques(dqs) = SharedIds
    /\ dqs[1].size_ >= 1
    /\ dqs[2].size_ >= 1
    /\ actor = 1
    /\ op = "push_back"
    /\ \E a, b \in SharedRing(mem, dqs, 1), c \in SharedRing(mem, dqs, 2) :
           a < c /\ c < b

====
